---- MODULE Spec2Model ----
(***************************************************************************)
(* Subscriber lifecycle and newsletter broadcast of the Cyber Cloud Kenya  *)
(* backend: models/Newsletter.js, routes/newsletter.js (subscribe and      *)
(* unsubscribe), routes/admin.js (POST /newsletter/send) and               *)
(* services/emailService.js (sendNewsletter, sendNewsletterConfirmation).  *)
(*                                                                         *)
(* Every request handler is an async function.  Node runs the code between *)
(* two awaits without interruption, so a handler is modelled as one action *)
(* per awaited operation: the action performs the awaited store or gateway *)
(* operation and then the synchronous code that follows it, up to the next *)
(* await or the response.  Handlers of different requests interleave at    *)
(* these points.  Administrative removal of a record                       *)
(* (DELETE /api/newsletter/:id) is outside the lifecycle and not modelled. *)
(* The clock advances with every reading, so that two readings never yield *)
(* the same timestamp.                                                     *)
(***************************************************************************)
EXTENDS Integers, Sequences, FiniteSets, TLC

\* ------------------------------------------------------------------ bounds
\* Requests started in one behaviour.
MaxRequests == 2
MaxRecipients == 3

\* --------------------------------------------------------------- constants
\* JavaScript undefined, for an omitted body field or an unset string path.
Undefined == "undefined"
\* lastEmailSent of a record that was never sent to: the path has no default.
NoDate == -1

\* Enum of the interests path and of the interest validators.
InterestEnum ==
  {"web-development", "graphic-design", "video-editing", "music-production",
   "online-jobs", "computer-packages", "robotics-ml", "cyber-security", "all"}

\* Enum of the targetAudience validator.
TargetEnum == {"all", "active", "specific-interest"}

\* ------------------------------------------------------------ input spaces
Emails == {"a@x.com", "b@x.com"}
Names == {Undefined, "Ann"}
\* req.body.interests when it is supplied (an array, possibly empty).
InterestLists == {{}, {"cyber-security"}}
\* req.body.targetAudience and req.body.interest of the admin send request.
TargetInputs == {"all", "active", "specific-interest"}
InterestInputs == {Undefined, "cyber-security", "knitting"}

VARIABLES
  store,     \* the Newsletter collection: sequence of documents, _id = index
  reqs,      \* the handlers: request number -> position and local variables
  now,       \* the clock: the value the next new Date() / Date.now() yields
  resp       \* the response written by the last step (NoResp when it wrote none)

vars == <<store, reqs, now, resp>>

Requests == 1..MaxRequests

Idle == [kind |-> "idle"]
Done == [kind |-> "done"]

\* What a finished handler wrote: HTTP status, the success flag and message of
\* the body, and the data of the body.  mail is the emailResult.success the
\* subscribe handler saw ("none" where no confirmation was awaited); logged is
\* the error its catch block gave to console.error ("none" outside a catch).
Resp(r, kind, email, status, success, message, data, mail) ==
  [req |-> r, kind |-> kind, email |-> email, status |-> status,
   success |-> success, message |-> message, data |-> data, mail |-> mail,
   logged |-> "none"]

NoData == [name |-> Undefined, interests |-> {}, total |-> 0, sent |-> 0, failed |-> 0]
SubscriberData(d) == [NoData EXCEPT !.name = d.name, !.interests = d.interests]
SendData(total, sent, failed) ==
  [NoData EXCEPT !.total = total, !.sent = sent, !.failed = failed]
NoResp == Resp(0, "none", Undefined, 0, FALSE, "none", NoData, "none")

\* The 500 of a catch block that logged err.
ServerError(r, kind, err) ==
  [Resp(r, kind, Undefined, 500, FALSE, "server error", NoData, "none")
   EXCEPT !.logged = err]

\* ------------------------------------------------------------------ store
\* Newsletter.findOne({ email }): _id of the first document with this email,
\* 0 when there is none.
FindOne(email) ==
  IF \E i \in DOMAIN store : store[i].email = email
  THEN CHOOSE i \in DOMAIN store :
         /\ store[i].email = email
         /\ \A j \in DOMAIN store : store[j].email = email => i <= j
  ELSE 0

\* No unique index: every insert is accepted.
UniqueIndexMissing(email) == TRUE

\* The unique index on email: an insert is accepted only when no document
\* holds the email.
UniqueIndexAllows(email) == \A i \in DOMAIN store : store[i].email # email

\* new Newsletter({ email, name, interests, ... }): schema defaults applied.
NewDocument(email, name, interests) ==
  [email |-> email, name |-> name, interests |-> interests,
   isActive |-> TRUE, subscriptionDate |-> now,
   lastEmailSent |-> NoDate, emailCount |-> 0]

\* Assignment to a path of a loaded document; mongoose marks the path
\* modified only when the value changes.
Assign(ld, path, val) ==
  IF ld.doc[path] = val THEN ld
  ELSE [doc |-> [ld.doc EXCEPT ![path] = val], mod |-> ld.mod \cup {path}]

\* No pre('save') middleware.
PreSaveNothing(doc, isNew) == doc

\* pre('save') middleware: default interests of a new document.
PreSave(doc, isNew) ==
  IF isNew /\ doc.interests = {} THEN [doc EXCEPT !.interests = {"all"}] ELSE doc

\* save() writing the whole loaded document back.
SaveWhole(stored, doc, mod) == doc

\* save() of a loaded document: $set of the modified paths on the stored
\* document with the same _id.
SaveModified(stored, doc, mod) ==
  [p \in DOMAIN stored |-> IF p \in mod THEN doc[p] ELSE stored[p]]

\* JavaScript a || b for a string a, and for an array a (an array is truthy
\* even when empty).
NameOr(name, other) == IF name # Undefined THEN name ELSE other
ArrayOr(given, list, other) == IF given THEN list ELSE other

\* --------------------------------------------------------------- requests
\* Requests are numbered in the order in which they arrive.
CanStart(r) ==
  /\ reqs[r] = Idle
  /\ \A q \in Requests : q < r => reqs[q] # Idle

At(r, kind, pc) == reqs[r].kind = kind /\ reqs[r].pc = pc

Finish(r, out) ==
  /\ reqs' = [reqs EXCEPT ![r] = Done]
  /\ resp' = out

\* ------------------------------------------ POST /api/newsletter/subscribe
StartSubscribe(r, email, name, given, list) ==
  /\ CanStart(r)
  /\ reqs' = [reqs EXCEPT ![r] =
       [kind |-> "subscribe", pc |-> "findOne", email |-> email,
        name |-> name, given |-> given, interests |-> list]]
  /\ resp' = NoResp /\ UNCHANGED <<store, now>>

\* The existence test alone, the isActive test forgotten: no subscribe is
\* refused.
NeverRefused(i) == FALSE

\* if (existingSubscriber) { if (existingSubscriber.isActive) ...
AlreadyActive(i) == i # 0 /\ store[i].isActive

\* Reactivation with the operands of || swapped: the stored name and
\* interests win over the supplied ones.
ReactivateKeeping(stored, name, given, list) ==
  LET l0 == [doc |-> stored, mod |-> {}]
      l1 == Assign(l0, "isActive", TRUE)
      l2 == Assign(l1, "name", NameOr(l1.doc.name, name))
      l3 == Assign(l2, "interests", l2.doc.interests)
  IN  Assign(l3, "subscriptionDate", now)

\* The reactivation assignments on the loaded document.
Reactivate(stored, name, given, list) ==
  LET l0 == [doc |-> stored, mod |-> {}]
      l1 == Assign(l0, "isActive", TRUE)
      l2 == Assign(l1, "name", NameOr(name, l1.doc.name))
      l3 == Assign(l2, "interests", ArrayOr(given, list, l2.doc.interests))
  IN  Assign(l3, "subscriptionDate", now)

SubscribeFindOne(r) ==
  /\ At(r, "subscribe", "findOne")
  /\ LET q == reqs[r]
         i == FindOne(q.email)
     IN  IF AlreadyActive(i)
         THEN Finish(r, Resp(r, "subscribe", q.email, 400, FALSE,
                             "already subscribed", NoData, "none"))
         ELSE /\ resp' = NoResp
              /\ IF i # 0
                 THEN LET l == Reactivate(store[i], q.name, q.given, q.interests)
                      IN  reqs' = [reqs EXCEPT ![r] =
                            [kind |-> "subscribe", pc |-> "save",
                             email |-> q.email, name |-> q.name,
                             given |-> q.given, interests |-> q.interests,
                             id |-> i, isNew |-> FALSE,
                             doc |-> l.doc, mod |-> l.mod]]
                 ELSE reqs' = [reqs EXCEPT ![r] =
                        [kind |-> "subscribe", pc |-> "save",
                         email |-> q.email, name |-> q.name,
                         given |-> q.given, interests |-> q.interests,
                         id |-> 0, isNew |-> TRUE,
                         doc |-> NewDocument(q.email, q.name,
                                   ArrayOr(q.given, q.interests, {"all"})),
                         mod |-> {}]]
  /\ now' = IF reqs'[r] = Done THEN now ELSE now + 1
  /\ store' = store

SubscribeSave(r) ==
  /\ At(r, "subscribe", "save")
  /\ LET q == reqs[r]
         d == PreSave(q.doc, q.isNew)
     IN  IF q.isNew /\ ~UniqueIndexAllows(q.email)
         THEN /\ Finish(r, ServerError(r, "subscribe", "DuplicateKey"))
              /\ store' = store
         ELSE /\ store' = IF q.isNew THEN Append(store, d)
                          ELSE [store EXCEPT ![q.id] = SaveModified(@, d, q.mod)]
              /\ reqs' = [reqs EXCEPT ![r] = [q EXCEPT !.pc = "confirm", !.doc = d]]
              /\ resp' = NoResp
  /\ now' = now

\* A handler that fails the call when the confirmation mail failed.
SubscribeConfirmStrict(r, ok) ==
  /\ At(r, "subscribe", "confirm")
  /\ LET q == reqs[r]
     IN  Finish(r, IF ok
                   THEN Resp(r, "subscribe", q.email,
                             IF q.isNew THEN 201 ELSE 200, TRUE,
                             IF q.isNew THEN "subscribed" ELSE "reactivated",
                             SubscriberData(q.doc), ok)
                   ELSE ServerError(r, "subscribe", "MailError"))
  /\ UNCHANGED <<store, now>>

\* sendNewsletterConfirmation has answered with success = ok; the handler
\* responds whatever the answer is.
SubscribeConfirm(r, ok) ==
  /\ At(r, "subscribe", "confirm")
  /\ LET q == reqs[r]
     IN  Finish(r, Resp(r, "subscribe", q.email,
                        IF q.isNew THEN 201 ELSE 200, TRUE,
                        IF q.isNew THEN "subscribed" ELSE "reactivated",
                        SubscriberData(q.doc), ok))
  /\ UNCHANGED <<store, now>>

\* --------------------------- POST and GET /api/newsletter/unsubscribe
StartUnsubscribe(r, form, email) ==
  /\ CanStart(r)
  /\ reqs' = [reqs EXCEPT ![r] =
       [kind |-> form, pc |-> "findOne", email |-> email]]
  /\ resp' = NoResp /\ UNCHANGED <<store, now>>

\* The already-unsubscribed test forgotten.
NeverInactive(i) == FALSE

\* if (!subscriber.isActive)
AlreadyInactive(i) == ~store[i].isActive

\* The POST form answers 404 for an unknown email; the GET form answers in
\* plain text with the default status 200 in every branch, so its success
\* field stands for the 2xx status.
UnsubscribeFindOne(r, form) ==
  /\ At(r, form, "findOne")
  /\ LET q == reqs[r]
         i == FindOne(q.email)
     IN  IF i = 0
         THEN Finish(r, Resp(r, form, q.email,
                             IF form = "unsubscribePost" THEN 404 ELSE 200,
                             form # "unsubscribePost",
                             "not found", NoData, "none"))
         ELSE IF AlreadyInactive(i)
         THEN Finish(r, Resp(r, form, q.email, 200, TRUE,
                             "already unsubscribed", NoData, "none"))
         ELSE LET l == Assign([doc |-> store[i], mod |-> {}], "isActive", FALSE)
              IN  /\ reqs' = [reqs EXCEPT ![r] =
                       [kind |-> form, pc |-> "save", email |-> q.email,
                        id |-> i, doc |-> l.doc, mod |-> l.mod]]
                  /\ resp' = NoResp
  /\ UNCHANGED <<store, now>>

UnsubscribeSave(r, form) ==
  /\ At(r, form, "save")
  /\ LET q == reqs[r]
     IN  /\ store' = [store EXCEPT ![q.id] = SaveModified(@, q.doc, q.mod)]
         /\ Finish(r, Resp(r, form, q.email, 200, TRUE,
                           "unsubscribed", NoData, "none"))
  /\ now' = now

\* ------------------------------------- POST /api/admin/newsletter/send
\* find() without the isActive filter.
GetEverySubscriber == [i \in 1..Len(store) |-> store[i].email]

\* Newsletter.getActiveSubscribers(): the active documents, in store order;
\* the handler uses their emails only.
Emailed(docs) == [i \in 1..Len(docs) |-> docs[i].email]
IsActiveDoc(d) == d.isActive
GetActiveSubscribers == Emailed(SelectSeq(store, IsActiveDoc))

\* The query without the 'all' alternative of $in.
GetSubscribersByTagOnly(interest) ==
  LET Match(d) == d.isActive /\ interest \in d.interests
  IN  [i \in 1..Len(SelectSeq(store, Match)) |-> SelectSeq(store, Match)[i].email]

\* Newsletter.getSubscribersByInterest(interest).
GetSubscribersByInterest(interest) ==
  LET Match(d) == d.isActive /\ (interest \in d.interests \/ "all" \in d.interests)
  IN  Emailed(SelectSeq(store, Match))

\* The express-validator chain on targetAudience and interest.
ValidSend(target, interest) ==
  /\ target = Undefined \/ target \in TargetEnum
  /\ interest = Undefined \/ interest \in InterestEnum

\* The audience selection of the handler.
SelectAudience(target, interest) ==
  IF target = "specific-interest" /\ interest # Undefined
  THEN GetSubscribersByInterest(interest)
  ELSE GetActiveSubscribers

\* results.map(r => r.email), the success filter forgotten.
AllEmails(results) == {results[i].email : i \in DOMAIN results}

\* results.filter(r => r.success).map(r => r.email)
SuccessfulEmails(results) ==
  {results[i].email : i \in {j \in DOMAIN results : results[j].success}}

\* An update that writes whole documents built from the schema defaults.
UpdateManyReplace(emails, date) ==
  [i \in DOMAIN store |->
     IF store[i].email \in emails
     THEN [store[i] EXCEPT !.emailCount = @ + 1, !.lastEmailSent = date,
                           !.isActive = TRUE, !.interests = {"all"}]
     ELSE store[i]]

\* Newsletter.updateMany({ email: { $in: emails } },
\*                       { $inc: { emailCount: 1 }, lastEmailSent: date })
UpdateMany(emails, date) ==
  [i \in DOMAIN store |->
     IF store[i].email \in emails
     THEN [store[i] EXCEPT !.emailCount = @ + 1, !.lastEmailSent = date]
     ELSE store[i]]

\* A loop that stops at the first failed send.
LoopFailFast(subscribers, results) ==
  /\ Len(results) < Len(subscribers)
  /\ results[Len(results)].success

\* The for-of loop of sendNewsletter: there is a next subscriber to send to.
LoopContinues(subscribers, results) == Len(results) < Len(subscribers)

\* A do-while loop: the first sendMail is issued before the list is looked at.
LoopAtLeastOnce(subscribers) == TRUE

\* The for-of loop of sendNewsletter on entry: there is a first subscriber.
LoopEnters(subscribers) == Len(subscribers) > 0

\* The catch of the inner try forgetting its results.push: a failed send leaves
\* no outcome, and the same subscriber is next again.
PushSuccessOnly(results, to, ok) ==
  IF ok THEN Append(results, [email |-> to, success |-> TRUE]) ELSE results

\* results.push({ email, success: true, messageId }) after sendMail, and
\* results.push({ email, success: false, error }) in the catch.
PushOutcome(results, to, ok) == Append(results, [email |-> to, success |-> ok])

\* The empty check forgotten.
AudienceNeverEmpty(subscribers) == FALSE

\* if (subscribers.length === 0)
NoSubscribers(subscribers) == Len(subscribers) = 0

StartSend(r, target, interest) ==
  /\ CanStart(r)
  /\ IF ValidSend(target, interest)
     THEN /\ reqs' = [reqs EXCEPT ![r] =
               [kind |-> "send", pc |-> "resolve", target |-> target,
                interest |-> interest]]
          /\ resp' = NoResp
     ELSE Finish(r, Resp(r, "send", Undefined, 400, FALSE,
                         "validation failed", NoData, "none"))
  /\ UNCHANGED <<store, now>>

\* The audience query has answered.  Without subscribers the handler answers
\* 400.  Otherwise sendNewsletter starts: createTransporter() either returns a
\* transport, and the first sendMail is issued, or throws, and sendNewsletter
\* returns { success: false, error }, on which results.filter throws.
SendResolve(r, transportOk) ==
  /\ At(r, "send", "resolve")
  /\ LET q == reqs[r]
         subscribers == SelectAudience(q.target, q.interest)
     IN  IF NoSubscribers(subscribers)
         THEN Finish(r, Resp(r, "send", Undefined, 400, FALSE,
                             "no active subscribers", NoData, "none"))
         ELSE IF ~transportOk
         THEN Finish(r, ServerError(r, "send", "TypeError"))
         ELSE /\ reqs' = [reqs EXCEPT ![r] =
                   [kind |-> "send", pc |-> "sending",
                    subscribers |-> subscribers, results |-> <<>>,
                    attempts |-> <<>>, date |-> NoDate]]
              /\ resp' = NoResp
  /\ UNCHANGED <<store, now>>

\* A loop that accounts each delivery as soon as the gateway has accepted it.
SendMailAnswerEager(r, ok) ==
  /\ At(r, "send", "sending")
  /\ LET q == reqs[r]
         to == q.subscribers[Len(q.results) + 1]
         results == PushOutcome(q.results, to, ok)
         attempts == Append(q.attempts, [to |-> to, ok |-> ok])
     IN  /\ reqs' = [reqs EXCEPT ![r] =
              IF LoopContinues(q.subscribers, results)
              THEN [q EXCEPT !.results = results, !.attempts = attempts]
              ELSE [q EXCEPT !.pc = "update", !.results = results,
                             !.attempts = attempts, !.date = now]]
         /\ store' = IF ok THEN UpdateMany({to}, now) ELSE store
  /\ now' = IF reqs'[r].pc = "update" THEN now + 1 ELSE now
  /\ resp' = NoResp

\* transporter.sendMail for the current subscriber has resolved (ok) or
\* rejected (~ok); the outcome is pushed and the loop goes on to the next
\* subscriber, or sendNewsletter returns and updateMany is issued.
\* attempts records the gateway calls made, as the gateway saw them.
SendMailAnswer(r, ok) ==
  /\ At(r, "send", "sending")
  /\ LET q == reqs[r]
         to == q.subscribers[Len(q.results) + 1]
         results == PushOutcome(q.results, to, ok)
         attempts == Append(q.attempts, [to |-> to, ok |-> ok])
     IN  reqs' = [reqs EXCEPT ![r] =
           IF LoopContinues(q.subscribers, results)
           THEN [q EXCEPT !.results = results, !.attempts = attempts]
           ELSE [q EXCEPT !.pc = "update", !.results = results,
                          !.attempts = attempts, !.date = now]]
  /\ now' = IF reqs'[r].pc = "update" THEN now + 1 ELSE now
  /\ resp' = NoResp
  /\ store' = store

SendUpdate(r) ==
  /\ At(r, "send", "update")
  /\ LET q == reqs[r]
         successfulSends == Cardinality({i \in DOMAIN q.results : q.results[i].success})
         failedSends == Cardinality({i \in DOMAIN q.results : ~q.results[i].success})
     IN  /\ store' = UpdateMany(SuccessfulEmails(q.results), q.date)
         /\ Finish(r, Resp(r, "send", Undefined, 200, TRUE, "sent",
                           SendData(Len(q.subscribers), successfulSends, failedSends),
                           "none"))
  /\ now' = now

\* --------------------------------------------------------- sendNewsletter
\* emailService.sendNewsletter(subject, content, subscribers), called directly
\* with any list of recipients.  Calls share no state, so they are taken one
\* after another.  createTransporter() returns a transport or throws; on a
\* throw the outer catch returns { success: false, error }.  With a transport
\* the loop is entered, or, for a list without a first element, results is
\* returned as it is.
Call(subscribers, pc, returns, results, attempts) ==
  [kind |-> "dispatch", pc |-> pc, subscribers |-> subscribers,
   returns |-> returns, results |-> results, attempts |-> attempts]

StartDispatch(r, subscribers, transportOk) ==
  /\ CanStart(r)
  /\ \A q \in Requests : reqs[q] \in {Idle, Done}
  /\ reqs' = [reqs EXCEPT ![r] =
       IF ~transportOk
       THEN Call(subscribers, "returned", "error", <<>>, <<>>)
       ELSE IF LoopEnters(subscribers)
       THEN Call(subscribers, "sending", "pending", <<>>, <<>>)
       ELSE Call(subscribers, "returned", "results", <<>>, <<>>)]
  /\ resp' = NoResp
  /\ UNCHANGED <<store, now>>

\* transporter.sendMail for the current subscriber has resolved (ok) or
\* rejected (~ok).
DispatchMailAnswer(r, ok) ==
  /\ At(r, "dispatch", "sending")
  /\ LET q == reqs[r]
         to == q.subscribers[Len(q.results) + 1]
         results == PushOutcome(q.results, to, ok)
         attempts == Append(q.attempts, [to |-> to, ok |-> ok])
     IN  reqs' = [reqs EXCEPT ![r] =
           IF LoopContinues(q.subscribers, results)
           THEN [q EXCEPT !.results = results, !.attempts = attempts]
           ELSE [q EXCEPT !.pc = "returned", !.returns = "results",
                          !.results = results, !.attempts = attempts]]
  /\ resp' = NoResp
  /\ UNCHANGED <<store, now>>

\* The caller has taken the returned value.
DispatchReturn(r) ==
  /\ At(r, "dispatch", "returned")
  /\ reqs' = [reqs EXCEPT ![r] = Done]
  /\ resp' = NoResp
  /\ UNCHANGED <<store, now>>

\* ------------------------------------------------------------ environment
\* A send route whose counter update swallows its error and reports the
\* broadcast as sent.
StoreFailureSwallowed(r) ==
  /\ reqs[r].kind \notin {"idle", "done"}
  /\ reqs[r].pc \in {"findOne", "save", "resolve", "update"}
  /\ Finish(r, IF reqs[r].pc = "update"
               THEN Resp(r, "send", Undefined, 200, TRUE, "sent",
                         SendData(Len(reqs[r].subscribers), 0, 0), "none")
               ELSE ServerError(r, reqs[r].kind, "StoreError"))
  /\ UNCHANGED <<store, now>>

\* A store operation rejects; the catch block of the handler answers 500.
StoreFailure(r) ==
  /\ reqs[r].kind \notin {"idle", "done"}
  /\ reqs[r].pc \in {"findOne", "save", "resolve", "update"}
  /\ Finish(r, ServerError(r, reqs[r].kind, "StoreError"))
  /\ UNCHANGED <<store, now>>

\* ---------------------------------------------------------- specification
Init ==
  /\ store = <<>>
  /\ reqs = [r \in Requests |-> Idle]
  /\ now = 0
  /\ resp = NoResp

UnsubscribeForms == {"unsubscribePost", "unsubscribeGet"}

Next ==
  \/ \E r \in Requests, e \in Emails, n \in Names :
       StartSubscribe(r, e, n, FALSE, {})
  \/ \E r \in Requests, e \in Emails, n \in Names, l \in InterestLists :
       StartSubscribe(r, e, n, TRUE, l)
  \/ \E r \in Requests : SubscribeFindOne(r)
  \/ \E r \in Requests : SubscribeSave(r)
  \/ \E r \in Requests, ok \in BOOLEAN : SubscribeConfirm(r, ok)
  \/ \E r \in Requests, f \in UnsubscribeForms, e \in Emails :
       StartUnsubscribe(r, f, e)
  \/ \E r \in Requests, f \in UnsubscribeForms : UnsubscribeFindOne(r, f)
  \/ \E r \in Requests, f \in UnsubscribeForms : UnsubscribeSave(r, f)
  \/ \E r \in Requests, t \in TargetInputs, i \in InterestInputs :
       StartSend(r, t, i)
  \/ \E r \in Requests, ok \in BOOLEAN : SendResolve(r, ok)
  \/ \E r \in Requests, ok \in BOOLEAN : SendMailAnswer(r, ok)
  \/ \E r \in Requests : SendUpdate(r)
  \/ \E r \in Requests : StoreFailure(r)

Spec == Init /\ [][Next]_vars

\* The collection outlives the server process: a server can start on a
\* collection that earlier runs populated.  Two such populations, each made of
\* documents the handlers above produce: one unsubscribed record that has been
\* sent to once, and three active records of which two have been sent to.
Subscriber(email, name, interests, isActive, subscribed, lastSent, count) ==
  [email |-> email, name |-> name, interests |-> interests,
   isActive |-> isActive, subscriptionDate |-> subscribed,
   lastEmailSent |-> lastSent, emailCount |-> count]

MixedStore ==
  << Subscriber("b@x.com", Undefined, {"all"}, FALSE, 1, 2, 1) >>

ActiveStore ==
  << Subscriber("a@x.com", "Ann", {"cyber-security"}, TRUE, 0, 3, 1),
     Subscriber("b@x.com", Undefined, {"all"}, TRUE, 1, 3, 1),
     Subscriber("c@x.com", "Bob", {"web-development"}, TRUE, 2, NoDate, 0) >>

InitPopulated ==
  /\ store \in {MixedStore, ActiveStore}
  /\ reqs = [r \in Requests |-> Idle]
  /\ now = 4
  /\ resp = NoResp

SpecPopulated == InitPopulated /\ [][Next]_vars

\* The audience queries on any population: up to three records, each active
\* or not, tagged all, cyber-security or web-development.  Only the send
\* route runs, up to its first sendMail.
AudienceEmails == <<"a@x.com", "b@x.com", "c@x.com">>
AudienceInterests == {{"all"}, {"cyber-security"}, {"web-development"}}
AudienceTags ==
  {Undefined, "all", "cyber-security", "web-development", "knitting"}

Population(present, profile) ==
  LET every == [k \in 1..Len(AudienceEmails) |->
                  Subscriber(AudienceEmails[k], Undefined,
                             profile[k].interests, profile[k].isActive,
                             k, NoDate, 0)]
      Present(d) == \E k \in present : d.email = AudienceEmails[k]
  IN  SelectSeq(every, Present)

Populations ==
  {Population(present, profile) :
     present \in SUBSET (1..Len(AudienceEmails)),
     profile \in [1..Len(AudienceEmails) ->
                  [interests : AudienceInterests, isActive : BOOLEAN]]}

InitAudience ==
  /\ store \in Populations
  /\ reqs = [r \in Requests |-> Idle]
  /\ now = 4
  /\ resp = NoResp

NextAudience ==
  \/ \E r \in Requests, t \in TargetInputs, i \in AudienceTags :
       StartSend(r, t, i)
  \/ \E r \in Requests, ok \in BOOLEAN : SendResolve(r, ok)

SpecAudience == InitAudience /\ [][NextAudience]_vars

\* sendNewsletter on any list of at most MaxRecipients recipients.
RecipientLists == UNION {[1..n -> Emails] : n \in 0..MaxRecipients}

NextDispatch ==
  \/ \E r \in Requests, l \in RecipientLists, ok \in BOOLEAN :
       StartDispatch(r, l, ok)
  \/ \E r \in Requests, ok \in BOOLEAN : DispatchMailAnswer(r, ok)
  \/ \E r \in Requests : DispatchReturn(r)

SpecDispatch == Init /\ [][NextDispatch]_vars

\* The send route alone, with the progress the runtime gives it: the store
\* answers every query and update (with a result or with an error) and the
\* handler then runs on.  Nothing makes transporter.sendMail settle: the
\* transport is created without any timeout option and the call is awaited
\* without a timer.
NextSend ==
  \/ \E r \in Requests, t \in TargetInputs, i \in InterestInputs :
       StartSend(r, t, i)
  \/ \E r \in Requests, ok \in BOOLEAN : SendResolve(r, ok)
  \/ \E r \in Requests, ok \in BOOLEAN : SendMailAnswer(r, ok)
  \/ \E r \in Requests : SendUpdate(r)
  \/ \E r \in Requests : StoreFailure(r)

StoreAnswers(r) ==
  \/ \E ok \in BOOLEAN : SendResolve(r, ok)
  \/ SendUpdate(r)
  \/ StoreFailure(r)

SpecSendFair ==
  /\ InitPopulated
  /\ [][NextSend]_vars
  /\ \A r \in Requests : WF_vars(StoreAnswers(r))

\* ----------------------------------------------------------------- claims
RecordsOf(email) == {i \in DOMAIN store : store[i].email = email}

\* Request r issues a transporter.sendMail of a broadcast in this step: the
\* first one when the audience is resolved, the next one when the previous
\* one is answered.
IssuesSend(r) ==
  /\ reqs'[r].kind = "send"
  /\ reqs'[r].pc = "sending"
  /\ \/ reqs[r].pc = "resolve"
     \/ Len(reqs'[r].results) # Len(reqs[r].results)

SendTarget(q) == q.subscribers[Len(q.results) + 1]

\* C1: a broadcast never issues a gateway send for a recipient whose stored
\* active flag is false at the moment of the send, also when unsubscribes
\* interleave with the broadcast.
C1_NoSendToInactive ==
  [][\A r \in Requests :
       IssuesSend(r) =>
         \E i \in DOMAIN store' :
           store'[i].email = SendTarget(reqs'[r]) /\ store'[i].isActive]_vars

\* C2: the store holds at most one record per email in every reachable
\* state, and a subscribe that succeeds (create or reactivation) leaves
\* exactly one record for its email.
C2_OneRecordPerEmail ==
  /\ \A i, j \in DOMAIN store : store[i].email = store[j].email => i = j
  /\ resp.kind = "subscribe" /\ resp.success =>
       Cardinality(RecordsOf(resp.email)) = 1

\* A subscribe has just reactivated a record, and it is the only one of its
\* email.
C2_Witness ==
  /\ resp.message = "reactivated"
  /\ Cardinality(RecordsOf(resp.email)) = 1

\* C3: the interests of every record are non-empty in every reachable state.
C3_InterestsNeverEmpty ==
  \A i \in DOMAIN store : store[i].interests # {}

\* The step is the counter update of a broadcast.
Accounting == \E r \in Requests : At(r, "send", "update") /\ SendUpdate(r)

\* C4: emailCount of a record never decreases and is never reset; it changes
\* only in the counter update of a broadcast, and then by +1.
C4_SendCountOnlyIncreases ==
  [][\A i \in DOMAIN store :
       \/ store'[i].emailCount = store[i].emailCount
       \/ Accounting /\ store'[i].emailCount = store[i].emailCount + 1]_vars

\* A record that had been sent to was unsubscribed and is reactivated, and
\* still has its count.
C4_Witness ==
  /\ resp.message = "reactivated"
  /\ \E i \in RecordsOf(resp.email) : store[i].emailCount >= 1

\* The gateway accepted the mail of broadcast request q for this email.
Delivered(q, email) ==
  \E k \in DOMAIN q.attempts : q.attempts[k].to = email /\ q.attempts[k].ok

\* C5: the counter update of a broadcast increments emailCount by exactly 1
\* and sets lastEmailSent for every recipient the gateway accepted, and
\* leaves both unchanged for every recipient it failed for.
C5_AccountingPerOutcome ==
  [][\A r \in Requests :
       At(r, "send", "update") /\ SendUpdate(r) =>
         \A k \in DOMAIN reqs[r].subscribers :
           \A i \in RecordsOf(reqs[r].subscribers[k]) :
             IF Delivered(reqs[r], reqs[r].subscribers[k])
             THEN /\ store'[i].emailCount = store[i].emailCount + 1
                  /\ store'[i].lastEmailSent = reqs[r].date
             ELSE /\ store'[i].emailCount = store[i].emailCount
                  /\ store'[i].lastEmailSent = store[i].lastEmailSent]_vars

\* A broadcast to the three subscribers a, b, c, failed by the gateway for b
\* only, has been accounted: a and c are incremented, b is not.
C5_Witness ==
  /\ resp.kind = "send" /\ resp.status = 200
  /\ resp.data.total = 3 /\ resp.data.sent = 2 /\ resp.data.failed = 1
  /\ Len(store) = 3
  /\ store[1].emailCount = 2 /\ store[2].emailCount = 1 /\ store[3].emailCount = 1
  /\ store[1].lastEmailSent = store[3].lastEmailSent
  /\ store[2].lastEmailSent < store[1].lastEmailSent

EmptyAudience(r) ==
  /\ reqs[r].pc = "resolve"
  /\ Len(SelectAudience(reqs[r].target, reqs[r].interest)) = 0

\* C7: a broadcast over a non-empty audience always answers with the full
\* report (status 200, sent and failed counts, sent + failed = total),
\* whatever the gateway fails for and also when the transport cannot be set
\* up.  Failures of the store are not in the claim.
C7_AlwaysFullReport ==
  [][\A r \in Requests :
       (/\ reqs[r].kind = "send"
        /\ reqs'[r] = Done
        /\ resp'.logged # "StoreError"
        /\ ~EmptyAudience(r)) =>
         /\ resp'.status = 200
         /\ resp'.success
         /\ resp'.data.sent + resp'.data.failed = resp'.data.total]_vars

\* Request r is a subscribe whose findOne finds an active record.
FindsActive(r) ==
  /\ At(r, "subscribe", "findOne")
  /\ FindOne(reqs[r].email) # 0
  /\ store[FindOne(reqs[r].email)].isActive

\* C8: subscribe for an email whose record is active answers 400 "already
\* subscribed", changes no record, and ends without a confirmation mail,
\* whatever name and interests the request supplies.
C8_AlreadySubscribed ==
  [][\A r \in Requests :
       FindsActive(r) /\ SubscribeFindOne(r) =>
         /\ store' = store
         /\ reqs'[r] = Done
         /\ resp'.status = 400
         /\ ~resp'.success
         /\ resp'.message = "already subscribed"
         /\ resp'.mail = "none"]_vars

\* A subscribe for an active email has been refused.
C8_Witness ==
  /\ resp.kind = "subscribe"
  /\ resp.status = 400
  /\ resp.message = "already subscribed"
  /\ \E i \in RecordsOf(resp.email) : store[i].isActive

\* No other request has written, since request q loaded its document, a path
\* that q leaves unmodified.
Undisturbed(q) ==
  \A p \in (DOMAIN q.doc) \ q.mod : store[q.id][p] = q.doc[p]

\* C9: a subscribe that finds its email's record inactive sets isActive,
\* sets subscriptionDate to the current time, replaces name and interests by
\* the supplied values when they are supplied and keeps the stored ones when
\* not, and changes no other path; its save stores exactly that record in
\* place (no other request having written the record in between), and the
\* handler answers 200 with the reactivated record.
C9_Reactivation ==
  [][\A r \in Requests :
       /\ (At(r, "subscribe", "findOne") /\ SubscribeFindOne(r)
             /\ reqs'[r] # Done /\ ~reqs'[r].isNew) =>
            LET q == reqs[r]
                found == store[FindOne(q.email)]
                d == reqs'[r].doc
            IN  /\ ~found.isActive
                /\ reqs'[r].id = FindOne(q.email)
                /\ d.isActive
                /\ d.subscriptionDate = now
                /\ d.name = IF q.name # Undefined THEN q.name ELSE found.name
                /\ d.interests = IF q.given THEN q.interests ELSE found.interests
                /\ d.email = found.email
                /\ d.emailCount = found.emailCount
                /\ d.lastEmailSent = found.lastEmailSent
       /\ (At(r, "subscribe", "save") /\ ~reqs[r].isNew /\ SubscribeSave(r)) =>
            LET q == reqs[r]
            IN  /\ Len(store') = Len(store)
                /\ \A i \in DOMAIN store : i # q.id => store'[i] = store[i]
                /\ store'[q.id].isActive
                /\ store'[q.id].subscriptionDate = q.doc.subscriptionDate
                /\ store'[q.id].emailCount = store[q.id].emailCount
                /\ store'[q.id].lastEmailSent = store[q.id].lastEmailSent
                /\ Undisturbed(q) => store'[q.id] = q.doc
       /\ (At(r, "subscribe", "confirm") /\ ~reqs[r].isNew
             /\ \E ok \in BOOLEAN : SubscribeConfirm(r, ok)) =>
            /\ resp'.status = 200 /\ resp'.success
            /\ resp'.message = "reactivated"
            /\ resp'.email = reqs[r].email
            /\ resp'.data.name = reqs[r].doc.name
            /\ resp'.data.interests = reqs[r].doc.interests]_vars

\* A reactivation that supplied a name and no interests has answered: the
\* record is active with the supplied name and the interests it had.
C9_Witness ==
  /\ resp.message = "reactivated"
  /\ resp.email = "b@x.com"
  /\ resp.data.name = "Ann"
  /\ \E i \in RecordsOf("b@x.com") :
       /\ store[i].isActive
       /\ store[i].name = "Ann"
       /\ store[i].interests = {"all"}
       /\ store[i].subscriptionDate >= 4

\* C10: the save of a subscribe that found no record leaves exactly one
\* record for the email; when the email still has no record it appends one
\* record, active, with emailCount 0 and the supplied interests, or {all}
\* when none are given.
C10_CreateOne ==
  [][\A r \in Requests :
       (At(r, "subscribe", "save") /\ reqs[r].isNew /\ SubscribeSave(r)) =>
         LET q == reqs[r]
         IN  /\ Cardinality({i \in DOMAIN store' : store'[i].email = q.email}) = 1
             /\ RecordsOf(q.email) = {} =>
                  /\ Len(store') = Len(store) + 1
                  /\ \A i \in DOMAIN store : store'[i] = store[i]
                  /\ LET new == store'[Len(store')]
                     IN  /\ new.email = q.email
                         /\ new.isActive
                         /\ new.emailCount = 0
                         /\ new.lastEmailSent = NoDate
                         /\ new.name = q.name
                         /\ new.interests =
                              IF q.given /\ q.interests # {}
                              THEN q.interests ELSE {"all"}]_vars

\* A subscribe that supplied an empty interests list has created its record
\* with interests {all}.
C10_Witness ==
  \E r \in Requests :
    /\ At(r, "subscribe", "confirm")
    /\ reqs[r].isNew /\ reqs[r].given /\ reqs[r].interests = {}
    /\ \E i \in RecordsOf(reqs[r].email) :
         /\ store[i].isActive
         /\ store[i].emailCount = 0
         /\ store[i].interests = {"all"}

\* C11: unsubscribe (POST or GET form) for an email whose record is already
\* inactive answers success without error and changes no record, however
\* often it is repeated; and a save of an unsubscribe that reaches a record
\* that is already inactive leaves the store as it is.
C11_UnsubscribeIdempotent ==
  [][\A r \in Requests, f \in UnsubscribeForms :
       /\ (/\ At(r, f, "findOne") /\ UnsubscribeFindOne(r, f)
           /\ FindOne(reqs[r].email) # 0
           /\ ~store[FindOne(reqs[r].email)].isActive) =>
            /\ store' = store
            /\ reqs'[r] = Done
            /\ resp'.status = 200 /\ resp'.success
            /\ resp'.logged = "none"
            /\ resp'.message = "already unsubscribed"
       /\ (/\ At(r, f, "save") /\ UnsubscribeSave(r, f)
           /\ ~store[reqs[r].id].isActive) =>
            /\ store' = store
            /\ resp'.status = 200 /\ resp'.success]_vars

\* The second of two unsubscribes of an inactive record, made through the
\* email link, has answered; the record is inactive and otherwise as it was.
C11_Witness ==
  /\ resp.kind = "unsubscribeGet"
  /\ resp.req = 2
  /\ resp.message = "already unsubscribed"
  /\ store = MixedStore

\* C12: unsubscribe (POST or GET form) for an email without record fails
\* with a not-found error and creates no record; for an email whose record
\* is active it sets isActive to false and answers with a confirmation.
C12_NotFoundOrDeactivate ==
  [][\A r \in Requests, f \in UnsubscribeForms :
       /\ (/\ At(r, f, "findOne") /\ UnsubscribeFindOne(r, f)
           /\ FindOne(reqs[r].email) = 0) =>
            /\ store' = store
            /\ reqs'[r] = Done
            /\ resp'.status = 404 /\ ~resp'.success
            /\ resp'.message = "not found"
       /\ (At(r, f, "save") /\ UnsubscribeSave(r, f)) =>
            /\ ~store'[reqs[r].id].isActive
            /\ Len(store') = Len(store)
            /\ resp'.status = 200 /\ resp'.success
            /\ resp'.message = "unsubscribed"]_vars

\* C13: when the confirmation mail fails after a create or a reactivation,
\* the subscribe still answers success (201 or 200), the step changes no
\* record, and the record written by the save is still there.
C13_MailFailureKeepsSubscription ==
  [][\A r \in Requests :
       (At(r, "subscribe", "confirm") /\ SubscribeConfirm(r, FALSE)) =>
         /\ resp'.success
         /\ resp'.status = IF reqs[r].isNew THEN 201 ELSE 200
         /\ resp'.logged = "none"
         /\ store' = store
         /\ RecordsOf(reqs[r].email) # {}]_vars

\* A reactivation whose confirmation mail failed has answered success and the
\* record is active.
C13_Witness ==
  /\ resp.message = "reactivated"
  /\ resp.mail = FALSE
  /\ resp.success
  /\ \E i \in RecordsOf(resp.email) : store[i].isActive

Range(seq) == {seq[k] : k \in DOMAIN seq}
ActiveEmails == {store[i].email : i \in {j \in DOMAIN store : store[j].isActive}}
Interested(T) ==
  {store[i].email :
     i \in {j \in DOMAIN store :
              /\ store[j].isActive
              /\ T \in store[j].interests \/ "all" \in store[j].interests}}

\* The send handler, with a transport, goes on from its audience query with
\* exactly the recipients in expected, each once; with none it answers 400.
ResolvesTo(r, expected) ==
  IF expected = {}
  THEN reqs'[r] = Done /\ resp'.status = 400
  ELSE /\ reqs'[r] # Done
       /\ reqs'[r].pc = "sending"
       /\ Range(reqs'[r].subscribers) = expected
       /\ Len(reqs'[r].subscribers) = Cardinality(expected)

\* C14: on every population and for every tag T of the vocabulary, the
\* audience of a specific-interest broadcast for T is exactly the active
\* records whose interests contain T or contain all.
C14_InterestAudience ==
  [][\A r \in Requests :
       (/\ At(r, "send", "resolve")
        /\ reqs[r].target = "specific-interest"
        /\ reqs[r].interest # Undefined
        /\ SendResolve(r, TRUE)) => ResolvesTo(r, Interested(reqs[r].interest))]_vars

\* A broadcast goes to a and c only, where a is tagged cyber-security and c is
\* tagged all; b is active with another tag.
C14_Witness ==
  /\ Len(store) = 3
  /\ store[1].isActive /\ store[1].interests = {"cyber-security"}
  /\ store[2].isActive /\ store[2].interests = {"web-development"}
  /\ store[3].isActive /\ store[3].interests = {"all"}
  /\ \E r \in Requests :
       /\ At(r, "send", "sending")
       /\ reqs[r].subscribers = <<"a@x.com", "c@x.com">>

\* C15: on every population, the audience of a broadcast to all and of a
\* broadcast to active is the same: exactly the records with isActive true,
\* whatever their interests.
C15_AllIsActive ==
  [][\A r \in Requests :
       (/\ At(r, "send", "resolve")
        /\ reqs[r].target \in {"all", "active"}
        /\ SendResolve(r, TRUE)) => ResolvesTo(r, ActiveEmails)]_vars

\* A broadcast goes to a and c, which share no tag, and not to the inactive b.
C15_Witness ==
  /\ Len(store) = 3
  /\ store[1].isActive /\ store[1].interests = {"cyber-security"}
  /\ ~store[2].isActive /\ store[2].interests = {"all"}
  /\ store[3].isActive /\ store[3].interests = {"web-development"}
  /\ \E r \in Requests :
       /\ At(r, "send", "sending")
       /\ reqs[r].subscribers = <<"a@x.com", "c@x.com">>

\* C16: a broadcast to specific-interest without a tag, or with a tag outside
\* the vocabulary, is refused: the request ends there with a failure
\* response (400 from the validators), no mail is issued and no record
\* changes.
InvalidTarget(target, interest) ==
  \/ target = "specific-interest" /\ interest = Undefined
  \/ interest # Undefined /\ interest \notin InterestEnum

TagOutside(interest) == interest # Undefined /\ interest \notin InterestEnum

C16_InvalidTargetRefused ==
  [][\A r \in Requests :
       /\ \A t \in TargetInputs, i \in InterestInputs :
            (StartSend(r, t, i) /\ TagOutside(i)) =>
              reqs'[r] = Done /\ resp'.status = 400 /\ store' = store
       /\ (/\ At(r, "send", "resolve")
           /\ InvalidTarget(reqs[r].target, reqs[r].interest)
           /\ reqs'[r] # reqs[r]) =>
              reqs'[r] = Done /\ ~resp'.success /\ store' = store]_vars

C18_BroadcastCompletes ==
  \A r \in Requests : (reqs[r].kind = "send") ~> (reqs[r] = Done)

\* C19: a store operation that rejects during a subscribe, an unsubscribe or
\* a broadcast (audience query or counter update) ends the request with a
\* failure response, never a success, and changes no record; a rejected
\* counter update in particular leaves every emailCount as it was.
C19_StoreFailureAborts ==
  [][\A r \in Requests :
       StoreFailure(r) =>
         /\ reqs[r].kind \in {"subscribe", "send"} \cup UnsubscribeForms
         /\ reqs'[r] = Done
         /\ resp'.req = r /\ resp'.kind = reqs[r].kind
         /\ resp'.status = 500 /\ ~resp'.success
         /\ store' = store
         /\ \A i \in DOMAIN store : store'[i].emailCount = store[i].emailCount]_vars

\* The only request so far, a broadcast to the three active subscribers, has
\* had all its sends answered (the clock was read for lastEmailSent) and its
\* counter update rejected; it answered 500 and the records are as they were.
C19_Witness ==
  /\ resp.req = 1 /\ resp.kind = "send"
  /\ resp.logged = "StoreError" /\ resp.status = 500
  /\ \A r \in Requests \ {1} : reqs[r] = Idle
  /\ now = 5
  /\ store = ActiveStore

\* C21: the steps of a broadcast are ordered.  While request r is in its send
\* loop, its recipient list stays the one resolved before the first send, no
\* step of r changes a record and r gets no response; the counter update is
\* reached only with every recipient attempted; and the report (200) is
\* written only by the step that applies the counter update.
C21_BroadcastOrder ==
  [][\A r \in Requests :
       /\ (At(r, "send", "sending") /\ reqs'[r] # reqs[r]) =>
            /\ reqs'[r].kind = "send"
            /\ reqs'[r].pc \in {"sending", "update"}
            /\ reqs'[r].subscribers = reqs[r].subscribers
            /\ Len(reqs'[r].attempts) = Len(reqs[r].attempts) + 1
            /\ store' = store
            /\ resp'.req # r
       /\ (reqs'[r].kind = "send" /\ reqs'[r].pc = "update") =>
            Len(reqs'[r].attempts) = Len(reqs'[r].subscribers)
       /\ (resp'.req = r /\ resp'.kind = "send" /\ resp'.success) =>
            /\ At(r, "send", "update")
            /\ Len(reqs[r].attempts) = Len(reqs[r].subscribers)
            /\ store' = UpdateMany(SuccessfulEmails(reqs[r].results), reqs[r].date)
       /\ (\E i \in DOMAIN store : store'[i].emailCount # store[i].emailCount) =>
            \E q \in Requests :
              /\ At(q, "send", "update")
              /\ Len(reqs[q].attempts) = Len(reqs[q].subscribers)
              /\ reqs'[q] = Done]_vars

\* The first broadcast has reported two of three recipients sent and one
\* failed, and the counters of two records have moved on from ActiveStore.
C21_Witness ==
  /\ resp.req = 1 /\ resp.message = "sent"
  /\ resp.data.total = 3 /\ resp.data.sent = 2 /\ resp.data.failed = 1
  /\ Len(store) = 3
  /\ Cardinality({i \in DOMAIN store :
                    store[i].emailCount = ActiveStore[i].emailCount + 1}) = 2

\* C22: a send request whose resolved audience is empty is answered with a
\* failure (400), issues no sendMail, applies no counter update, and leaves
\* the store unchanged.
C22_EmptyAudienceRejected ==
  [][\A r \in Requests, ok \in BOOLEAN :
       (At(r, "send", "resolve") /\ EmptyAudience(r) /\ SendResolve(r, ok)) =>
         /\ reqs'[r] = Done
         /\ resp'.req = r
         /\ resp'.status = 400 /\ ~resp'.success
         /\ resp'.message = "no active subscribers"
         /\ store' = store]_vars

\* A broadcast on the collection whose only record is inactive has been
\* refused, and the record is as it was.
C22_Witness ==
  /\ resp.kind = "send"
  /\ resp.message = "no active subscribers"
  /\ store = MixedStore

\* C23: every step changes the emailCount of each record by exactly the
\* number of broadcasts whose counter update is applied in that step and who
\* delivered to the record's email; no step of an overlapping subscribe,
\* reactivation, unsubscribe or other broadcast takes an increment back, so
\* two overlapping broadcasts that both delivered raise the count by 2.
C23_NoLostIncrement ==
  [][/\ Len(store') >= Len(store)
     /\ \A i \in DOMAIN store :
          /\ store'[i].email = store[i].email
          /\ store'[i].emailCount =
               store[i].emailCount +
               Cardinality({r \in Requests :
                              /\ At(r, "send", "update")
                              /\ reqs'[r] = Done
                              /\ resp'.success
                              /\ Delivered(reqs[r], store[i].email)})]_vars

\* Two broadcasts overlapped: the one that finished its sends first (and read
\* the clock at 4) applied its counter update last; a was delivered to by
\* both and its count went from 1 to 3.
C23_Witness ==
  /\ Len(store) = 3
  /\ store[1].emailCount = 3
  /\ store[1].lastEmailSent = 4
  /\ now = 6
  /\ resp.message = "sent"

\* C24: the save of an unsubscribe changes only isActive of the addressed
\* record; the counter update of a broadcast changes only emailCount and
\* lastEmailSent, and only of the recipients delivered to; neither creates
\* or deletes a record.
C24_FrameConditions ==
  [][\A r \in Requests :
       /\ \A f \in UnsubscribeForms :
            (At(r, f, "save") /\ UnsubscribeSave(r, f)) =>
              /\ Len(store') = Len(store)
              /\ \A i \in DOMAIN store :
                   IF i = reqs[r].id
                   THEN store'[i] = [store[i] EXCEPT !.isActive = FALSE]
                   ELSE store'[i] = store[i]
       /\ (At(r, "send", "update") /\ SendUpdate(r)) =>
              /\ Len(store') = Len(store)
              /\ \A i \in DOMAIN store :
                   IF Delivered(reqs[r], store[i].email)
                   THEN store'[i] = [store[i] EXCEPT
                                       !.emailCount = store[i].emailCount + 1,
                                       !.lastEmailSent = reqs[r].date]
                   ELSE store'[i] = store[i]]_vars

\* A broadcast has been accounted for a recipient that an unsubscribe made
\* inactive meanwhile: the record has the new count and is still inactive.
C24_Witness ==
  /\ resp.kind = "send" /\ resp.message = "sent"
  /\ \E i \in DOMAIN store :
       /\ ~store[i].isActive
       /\ store[i].lastEmailSent = 4
       /\ store[i].emailCount = ActiveStore[i].emailCount + 1

====
